---- MODULE Spec2Model ----
(***************************************************************************)
(* A model of the idasql test infrastructure:                              *)
(*   - src/src/test/test_client.py : IdasqlClient (connect, disconnect,    *)
(*     query, _recv_exact) and run_basic_tests;                            *)
(*   - src/src/test/run_tests.py   : TestHarness (build_all,               *)
(*     run_cli_local_tests, start_driver, stop_driver, run_remote_tests,   *)
(*     print_results, run) and main.                                       *)
(*                                                                         *)
(* Two specifications share the definitions of the client:                 *)
(*   SpecClient : one IdasqlClient driven by an arbitrary caller against   *)
(*                an arbitrary peer, one socket call per step;             *)
(*   Spec       : one process running main(), i.e. one harness run, with   *)
(*                the environment (build tools, CLI, server, network)      *)
(*                choosing every outcome the code can observe.             *)
(***************************************************************************)
EXTENDS Integers, Sequences, FiniteSets, TLC

VARIABLES
    \* ---- IdasqlClient under SpecClient --------------------------------
    sock,        \* self.sock: "None" or the state of the socket object
    lastOp,      \* the method that returned last: none/connect/disconnect/query
    connRet,     \* what the last connect returned: "none", "True", "False"
    raised,      \* an exception escaped from the last method call
    qpc,         \* position inside query: idle, recv_len, recv_body
    need,        \* n of the running _recv_exact(n)
    data,        \* data of the running _recv_exact
    lastReq,     \* the size handed to the last sock.recv call
    rx,          \* what the peer still delivers on the connection
    respLen,     \* resp_len once unpacked, NoLen before
    consumed,    \* bytes this query has taken from the stream
    ioCalls,     \* socket calls (sendall, recv) this query has made
    fault,       \* the fault this query met: none/send/recv/closed/decode
    result,      \* what the last query returned
    sql,         \* the sql argument of the query sent to an echoing peer
    paired,      \* the next frame of the stream answers this query's request
    \* ---- the harness process under Spec -------------------------------
    pc,          \* position of the process inside main() / TestHarness.run
    exitCode,    \* the process exit code, NoCode while running
    retval,      \* the value run() is returning (pending in the finally)
    exc,         \* the exception propagating out of the try block, or "none"
    buildOk,     \* what build_all returned: "none", "True", "False"
    startOk,     \* what start_driver returned: "none", "True", "False"
    idx,         \* number of cases of the running group already executed
    localResults,   \* results of run_cli_local_tests
    basicResults,   \* results of run_basic_tests
    remoteResults,  \* what run_remote_tests returned
    totalPassed, totalFailed,
    driver_process, \* self.driver_process: "None" or "Popen"
    proc,        \* the server process: notlaunched, starting, listening,
                 \* exited
    elapsed,     \* time.time() - start_time in the probe loop, in ticks
    probeSock,   \* sock of the probe's IdasqlClient
    testSock,    \* sock of run_remote_tests' IdasqlClient
    launches,    \* number of Popen calls of the run
    stopCalls,   \* number of stop_driver calls of the run
    stopLog,     \* what stop_driver did with the process, in order
    termSent,    \* terminate() was sent to the server process
    readyVia,    \* who accepted the probe connection: none, server, other
    probeOutcome,   \* how the probe loop ended: none, ready, exited, timeout
    outBuf,      \* what the server process has written to its stdout pipe:
                 \* "empty", "blank" (white space only), "text"
    drained,     \* the pipe has been read to its end
    outShown,    \* number of times text of the server was printed
    ranPassed, ranFailed, \* result entries produced so far, by verdict
    predRaised,  \* names of the remote cases whose predicate raised
    groupsRun,   \* the mode groups whose result list was returned
    \* ---- scripts/embed_prompt.py under SpecEmbed ----------------------
    epc,         \* position inside embed_prompt: idle/split/loop/embed/done
    content,     \* the text read from the input file
    max_chunk,   \* max_chunk of split_content
    lines,       \* the lines the for loop has still to take
    chunks, current_chunk, current_size, \* the locals of split_content
    string_literal  \* the literals written into the header

cvars == <<sock, lastOp, connRet, raised, qpc, need, data, lastReq, rx,
           respLen, consumed, ioCalls, fault, result, sql, paired>>
hvars == <<pc, exitCode, retval, exc, buildOk, startOk, idx, localResults,
           basicResults, remoteResults, totalPassed, totalFailed,
           driver_process, proc, elapsed, probeSock, testSock,
           launches, stopCalls, stopLog, termSent, readyVia, probeOutcome, outBuf,
           drained, outShown, ranPassed, ranFailed, predRaised, groupsRun>>
evars == <<epc, content, max_chunk, lines, chunks, current_chunk,
           current_size, string_literal>>
vars == <<cvars, hvars, evars>>

(***************************************************************************)
(* Bounds of the model.                                                    *)
(***************************************************************************)
\* payload bytes the peer may deliver beyond the declared length
MaxExtra == 1
\* a recv on at most this many available bytes may return any count 1..m
MaxChunkEnum == 3
\* a query is started on a connection that holds at most this many unread
\* bytes of earlier replies
MaxStale == 4
\* remote cases of one run that get another answer than the one a healthy
\* server gives
MaxFaults == 2
\* the SQL strings sent to an echoing peer have at most this many characters
MaxSqlLen == 2
\* the longest payload of a reply that comes whole after a timeout
MaxLateLen == 16
\* the input text of embed_prompt has at most this many characters
MaxTextLen == 4
\* max_chunk of split_content is at most this
MaxChunkSize == 3

(***************************************************************************)
(* Byte strings, in stream order: stale bytes (left unread by an earlier   *)
(* query of the connection, content unknown), then the concrete bytes of   *)
(* a length prefix, then a count of payload bytes whose content is the     *)
(* payload kind of the stream.                                             *)
(***************************************************************************)
Bytes(stale, pre, pay) == [stale |-> stale, pre |-> pre, pay |-> pay]
Empty == Bytes(0, <<>>, 0)
BLen(b) == b.stale + Len(b.pre) + b.pay
Min(a, b) == IF a < b THEN a ELSE b
\* the first c bytes of b (c <= BLen(b)), and what follows them
BTake(b, c) ==
    LET s == Min(b.stale, c)
        p == Min(Len(b.pre), c - s)
    IN  Bytes(s, SubSeq(b.pre, 1, p), c - s - p)
BDrop(b, c) ==
    LET s == Min(b.stale, c)
        p == Min(Len(b.pre), c - s)
    IN  Bytes(b.stale - s, SubSeq(b.pre, p + 1, Len(b.pre)), b.pay - (c - s - p))
\* data += chunk
BCat(a, b) == Bytes(a.stale + b.stale, a.pre \o b.pre, a.pay + b.pay)

(***************************************************************************)
(* WireProtocol: struct.pack('<I', n) and struct.unpack('<I', b)[0].       *)
(***************************************************************************)
PackLE(n) ==
    << n % 256, (n \div 256) % 256, (n \div 65536) % 256,
       (n \div 16777216) % 256 >>
UnpackLE(b) == b[1] + 256 * b[2] + 65536 * b[3] + 16777216 * b[4]

\* 100 * 1024 * 1024, the limit of query
Ceiling == 100 * 1024 * 1024

(***************************************************************************)
(* The dicts query returns.                                                *)
(***************************************************************************)
NoResult == [none |-> TRUE]
NotConnected == [success |-> FALSE, error |-> "Not connected"]
ConnClosed == [success |-> FALSE, error |-> "Connection closed"]
TooLarge == [success |-> FALSE, error |-> "Response too large"]
\* {'success': False, 'error': str(e)}
ExcResp(e) == [success |-> FALSE, error |-> e]

\* exceptions sendall / recv raise, by their str(e)
SendErrors == {"Broken pipe", "timed out"}
RecvErrors == {"timed out", "Connection reset by peer"}
\* str(e) of what resp_bytes.decode / json.loads raise
DecodeError == "Expecting value"

(***************************************************************************)
(* What a server may answer: the JSON document of a payload kind.  rows    *)
(* is len(r['rows']), columns the set of names in r['columns'].            *)
(***************************************************************************)
OkFull == [success |-> TRUE, columns |-> {"name", "count"}, rows |-> 1,
           row_count |-> 1]
OkBare == [success |-> TRUE]
AppErr == [success |-> FALSE, error |-> "no such table"]
NoSuccessKey == [row_count |-> 0]
NonDict == [nondict |-> TRUE]
Undecodable == [undecodable |-> TRUE]
\* {"success": false} and {"success": true, "error": "x"}
FailNoError == [success |-> FALSE]
OkWithError == [success |-> TRUE, error |-> "x"]
PayloadKinds ==
    {"ok_full", "ok_bare", "app_err", "no_success", "nondict", "garbage",
     "fail_noerr", "ok_err"}
JsonOf(kind) ==
    CASE kind = "ok_full" -> OkFull
      [] kind = "ok_bare" -> OkBare
      [] kind = "app_err" -> AppErr
      [] kind = "no_success" -> NoSuccessKey
      [] kind = "nondict" -> NonDict
      [] kind = "fail_noerr" -> FailNoError
      [] kind = "ok_err" -> OkWithError
      [] OTHER -> Undecodable
\* the length in bytes of the shortest JSON document of a kind; a JSON
\* document may be padded with white space to any greater length
MinLen(kind) ==
    CASE kind = "ok_full" -> 62
      [] kind = "ok_bare" -> 16
      [] kind = "app_err" -> 41
      [] kind = "no_success" -> 15
      [] kind = "nondict" -> 1
      [] kind = "fail_noerr" -> 18
      [] kind = "ok_err" -> 31
      [] OTHER -> 0

\* the greatest value of the model's integers; a prefix of 2^31 and more
\* compares to the limit as this one does
MaxI31 == 127 * 16777216 + 16777215
\* the declared lengths a peer sends
DeclLens == {0, 1, 2, 16, 64, Ceiling - 1, Ceiling, Ceiling + 1, MaxI31}
\* how a connection ends once its bytes are read: recv returns b'' or raises
StreamEnds == {"closed"} \cup RecvErrors
\* the frames a peer may send in reply and how much of each arrives:
\* declared length, payload kind, payload bytes that arrive, what follows
ReplyGots(L) ==
    IF L = MaxI31 THEN {0, 1}
    ELSE {a \in {0, 1, L - 1, L, L + MaxExtra} : a >= 0}
ReplySet ==
    UNION { UNION { UNION {
        { [len |-> L, kind |-> k, got |-> a, end |-> e, npre |-> 4] :
            a \in ReplyGots(L) }
        \cup
        { [len |-> L, kind |-> k, got |-> 0, end |-> e, npre |-> p] :
            p \in 0..3 }
      : e \in StreamEnds }
      : k \in {kk \in PayloadKinds : MinLen(kk) <= L} }
      : L \in DeclLens }

\* the stream of a connection: bytes that still arrive, then its end; kind
\* and flen describe the frame whose payload bytes buf.pay counts
NewRx == [buf |-> Empty, end |-> "closed", kind |-> "garbage", flen |-> 0]
\* bytes a query left unread are stale for whatever is read next
Leftover(old) ==
    [buf |-> Bytes(BLen(old.buf), <<>>, 0), end |-> "closed",
     kind |-> "garbage", flen |-> 0]
\* the stream after recv timed out before any byte of the reply: nothing
\* more comes, or the reply comes whole once query has returned (the socket
\* stays open and is not drained)
LateFrames(old) ==
    {Leftover(old)} \cup
    (IF old.end = "timed out" /\ MinLen(old.kind) <= old.flen
        /\ old.flen > 0 /\ old.flen <= MaxLateLen
     THEN {[buf |-> Bytes(0, PackLE(old.flen), old.flen), end |-> "closed",
            kind |-> old.kind, flen |-> old.flen]}
     ELSE {})
\* the peer answers with reply r behind whatever the stream still holds; a
\* whole frame that came late is ahead of it, and what is behind that frame
\* comes after this query has returned
RxAfterReply(old, r) ==
    IF old.buf.pre # <<>> THEN old
    ELSE [buf |-> Bytes(BLen(old.buf), SubSeq(PackLE(r.len), 1, r.npre),
                        r.got),
          end |-> r.end, kind |-> r.kind, flen |-> r.len]

NoLen == -1

(***************************************************************************)
(* IdasqlClient.connect                                                    *)
(***************************************************************************)
\* socket.socket() fails, or sock.connect fails, or the connection is made
ConnectOutcomes == {"ok", "nosocket", "refused", "timed out", "resolve"}
\* a mutant: the except branch leaves self.sock as the try block left it
ConnectKeepsSock(s, o) ==
    IF o = "ok" THEN [sock |-> "connected", ret |-> "True", raised |-> FALSE]
    ELSE [sock |-> IF o = "nosocket" THEN s ELSE "unconnected",
          ret |-> "False", raised |-> FALSE]
ConnectResult(s, o) ==
    IF o = "ok" THEN [sock |-> "connected", ret |-> "True", raised |-> FALSE]
    ELSE [sock |-> "None", ret |-> "False", raised |-> FALSE]

(***************************************************************************)
(* IdasqlClient.disconnect                                                 *)
(***************************************************************************)
\* a mutant: disconnect leaves the socket open
DisconnectLeavesOpen(s, closeFails) == [sock |-> s, raised |-> FALSE]
\* a mutant: an error of close() is not swallowed
DisconnectCloseRaises(s, closeFails) ==
    IF s # "None"
    THEN IF closeFails THEN [sock |-> s, raised |-> TRUE]
         ELSE [sock |-> "None", raised |-> FALSE]
    ELSE [sock |-> s, raised |-> FALSE]
DisconnectResult(s, closeFails) ==
    IF s # "None"
    THEN [sock |-> "None", raised |-> FALSE]
    ELSE [sock |-> s, raised |-> FALSE]

(***************************************************************************)
(* IdasqlClient.query and _recv_exact, one socket call per step            *)
(***************************************************************************)
\* a mutant: the limit test rejects the limit itself
GuardAtLimit(resp_len) == resp_len >= Ceiling
\* if resp_len > 100 * 1024 * 1024
Guard(resp_len) == resp_len > Ceiling

\* a mutant: query has no except clause, the exception escapes
QueryExceptEscapes(e) == [result |-> NoResult, raised |-> TRUE]
\* except Exception as e: return {'success': False, 'error': str(e)}
QueryExcept(e) == [result |-> ExcResp(e), raised |-> FALSE]

\* struct.unpack('<I', len_bytes)[0]; bytes of an earlier frame read as a
\* prefix decode to a value the model does not know
PrefixValues(d) ==
    IF d.stale = 0 /\ Len(d.pre) = 4 THEN {UnpackLE(d.pre)} ELSE DeclLens
\* json.loads(resp_bytes.decode('utf-8')): the document of the frame when
\* resp_bytes is exactly the frame's payload
Decode(d, r) ==
    IF d.stale = 0 /\ d.pre = <<>> /\ d.pay = r.flen THEN JsonOf(r.kind)
    ELSE Undecodable
\* sock.recv(k) with m = min(k, bytes available) > 0 returns 1..m bytes
ChunkSizes(m) == IF m <= MaxChunkEnum THEN 1..m ELSE {m - 1, m}

\* query returns res
QReturn(res, esc, f) ==
    /\ result' = res
    /\ raised' = esc
    /\ fault' = f
    /\ qpc' = "idle"
    /\ lastOp' = "query"
    /\ need' = 0
    /\ data' = Empty
\* query leaves through its except clause with exception e
QRaise(e, f) == QReturn(QueryExcept(e).result, QueryExcept(e).raised, f)

\* if not self.sock: return {'success': False, 'error': 'Not connected'}
QueryNotConnected ==
    /\ qpc = "idle" /\ sock = "None"
    /\ QReturn(NotConnected, FALSE, "none")
    /\ ioCalls' = 0 /\ consumed' = 0 /\ respLen' = NoLen /\ lastReq' = 0
    /\ paired' = TRUE
    /\ UNCHANGED <<sock, connRet, rx>>

\* json.dumps, encode, sendall; then the peer's reply is on its way
QuerySend ==
    /\ qpc = "idle" /\ sock # "None" /\ rx.buf.stale <= MaxStale
    /\ ioCalls' = 1 /\ consumed' = 0 /\ respLen' = NoLen /\ lastReq' = 0
    /\ paired' = (rx.buf = Empty)
    /\ \/ \E e \in (IF sock = "connected" THEN SendErrors
                    ELSE {"Socket is not connected"}) :
            /\ QRaise(e, "send")
            /\ rx' = rx
       \/ /\ sock = "connected"
          /\ \E r \in ReplySet : rx' = RxAfterReply(rx, r)
          /\ qpc' = "recv_len" /\ need' = 4 /\ data' = Empty
          /\ result' = NoResult /\ raised' = FALSE /\ fault' = "none"
          /\ lastOp' = lastOp
    /\ UNCHANGED <<sock, connRet>>

\* what query does with len_bytes once _recv_exact(4) has returned it
AfterPrefix(d) ==
    \E v \in PrefixValues(d) :
        /\ respLen' = v
        /\ IF Guard(v) THEN QReturn(TooLarge, FALSE, "toolarge")
           ELSE IF v = 0
           \* _recv_exact(0) returns b'' without a recv; json.loads fails
           THEN QRaise(DecodeError, "decode")
           ELSE /\ qpc' = "recv_body" /\ need' = v /\ data' = Empty
                /\ UNCHANGED <<result, raised, fault, lastOp>>

\* what query does with resp_bytes once _recv_exact(resp_len) has returned
AfterPayload(d) ==
    /\ respLen' = respLen
    /\ IF Decode(d, rx) = Undecodable THEN QRaise(DecodeError, "decode")
       ELSE QReturn(Decode(d, rx), FALSE, "none")

\* a mutant: every recv asks for n bytes, whatever has arrived
RecvSizeWhole(n, have) == n
\* the size of one recv: n - len(data)
RecvSize(n, have) == n - have

\* a mutant: on an empty chunk _recv_exact returns the bytes it has, and
\* query goes on to unpack or decode them
ShortReadInterpreted(phase) ==
    IF phase = "recv_len"
    THEN ExcResp("unpack requires a buffer of 4 bytes")
    ELSE ExcResp(DecodeError)
\* if not chunk: return None, and in query: if not len_bytes (resp_bytes):
\* return {'success': False, 'error': 'Connection closed'}
ShortRead(phase) == ConnClosed

\* one pass of the loop of _recv_exact: chunk = self.sock.recv(n - len(data))
Recv ==
    /\ qpc \in {"recv_len", "recv_body"}
    /\ BLen(data) < need
    /\ LET req == RecvSize(need, BLen(data))
           avail == BLen(rx.buf)
       IN  /\ lastReq' = req
           /\ ioCalls' = ioCalls + 1
           /\ IF avail = 0
              THEN /\ IF rx.end = "closed"
                      THEN QReturn(ShortRead(qpc), FALSE, "closed")
                      ELSE QRaise(rx.end, "recv")
                   /\ rx' \in (IF consumed = 0 THEN LateFrames(rx)
                               ELSE {Leftover(rx)})
                   /\ UNCHANGED <<consumed, respLen>>
              ELSE \E c \in ChunkSizes(Min(req, avail)) :
                     LET d == BCat(data, BTake(rx.buf, c))
                         rest == [rx EXCEPT !.buf = BDrop(rx.buf, c)]
                     IN
                     /\ consumed' = consumed + c
                     /\ IF BLen(d) < need
                        THEN /\ data' = d
                             /\ UNCHANGED <<qpc, need, result, raised, fault,
                                            lastOp, respLen>>
                        ELSE IF qpc = "recv_len" THEN AfterPrefix(d)
                             ELSE AfterPayload(d)
                     /\ rx' = IF qpc' = "idle" THEN Leftover(rest) ELSE rest
    /\ UNCHANGED <<sock, connRet>>

\* client.connect(): a new socket, and with it a new stream
Connect ==
    /\ qpc = "idle"
    /\ \E o \in ConnectOutcomes :
         LET r == ConnectResult(sock, o) IN
         /\ sock' = r.sock /\ connRet' = r.ret /\ raised' = r.raised
         /\ rx' = IF o = "ok" THEN NewRx ELSE rx
    /\ lastOp' = "connect"
    /\ UNCHANGED <<qpc, need, data, lastReq, respLen, consumed, ioCalls,
                   fault, result>>

\* client.disconnect()
Disconnect ==
    /\ qpc = "idle"
    /\ \E closeFails \in BOOLEAN :
         LET r == DisconnectResult(sock, closeFails) IN
         sock' = r.sock /\ raised' = r.raised
    /\ lastOp' = "disconnect"
    /\ UNCHANGED <<connRet, qpc, need, data, lastReq, rx, respLen, consumed,
                   ioCalls, fault, result>>

ClientInit ==
    /\ sock = "None" /\ lastOp = "none" /\ connRet = "none"
    /\ raised = FALSE /\ qpc = "idle" /\ need = 0 /\ data = Empty
    /\ lastReq = 0 /\ rx = NewRx /\ respLen = NoLen /\ consumed = 0
    /\ ioCalls = 0 /\ fault = "none" /\ result = NoResult
    /\ sql = <<>> /\ paired = TRUE

ClientNext ==
    \/ Connect \/ Disconnect \/ QueryNotConnected \/ QuerySend \/ Recv

(***************************************************************************)
(* The request frame of query and its way back from a peer that echoes     *)
(* every byte: json.dumps({'sql': sql}).encode('utf-8') behind its packed  *)
(* length, received by _recv_exact and decoded by json.loads.  Characters  *)
(* are code points, bytes are their values, the stream is the sequence of  *)
(* the bytes that still arrive.                                            *)
(***************************************************************************)
\* the characters of the SQL strings: a, the quote, the backslash and e
\* with acute accent
SqlChars == {97, 34, 92, 233}
SqlStrings == UNION {[1..n -> SqlChars] : n \in 0..MaxSqlLen}

\* the digit (0-9, a-f) of a value below 16, and back
HexDigit(d) == IF d < 10 THEN 48 + d ELSE 87 + d
HexValue(b) ==
    IF b >= 48 /\ b <= 57 THEN b - 48
    ELSE IF b >= 97 /\ b <= 102 THEN b - 87
    ELSE IF b >= 65 /\ b <= 70 THEN b - 55
    ELSE -1
\* a mutant: json.dumps copies every character as it is
EscapeNothing(c) == <<c>>
\* json.dumps (ensure_ascii) of one character of a string
EscapeChar(c) ==
    CASE c = 34 -> <<92, 34>>
      [] c = 92 -> <<92, 92>>
      [] c = 10 -> <<92, 110>>
      [] c < 32 \/ c > 126 ->
            <<92, 117, HexDigit((c \div 4096) % 16), HexDigit((c \div 256) % 16),
              HexDigit((c \div 16) % 16), HexDigit(c % 16)>>
      [] OTHER -> <<c>>
RECURSIVE EscapeString(_)
EscapeString(str) ==
    IF str = <<>> THEN <<>>
    ELSE EscapeChar(Head(str)) \o EscapeString(Tail(str))
\* {"sql": " and "}
JsonHead == <<123, 34, 115, 113, 108, 34, 58, 32, 34>>
JsonTail == <<34, 125>>
\* req = json.dumps({'sql': sql})
JsonDumps(str) == JsonHead \o EscapeString(str) \o JsonTail

\* req.encode('utf-8'), for code points below 2048
RECURSIVE Utf8Encode(_)
Utf8Encode(text) ==
    IF text = <<>> THEN <<>>
    ELSE LET c == Head(text) IN
         (IF c < 128 THEN <<c>> ELSE <<192 + (c \div 64), 128 + (c % 64)>>)
         \o Utf8Encode(Tail(text))
\* resp_bytes.decode('utf-8'): the text, or <<-1>> for UnicodeDecodeError
RECURSIVE Utf8Decode(_)
Utf8Decode(b) ==
    IF b = <<>> THEN <<>>
    ELSE IF b[1] < 128
    THEN LET r == Utf8Decode(Tail(b)) IN
         IF r = <<-1>> THEN r ELSE <<b[1]>> \o r
    ELSE IF b[1] >= 194 /\ b[1] < 224 /\ Len(b) >= 2 /\ b[2] >= 128 /\ b[2] < 192
    THEN LET r == Utf8Decode(SubSeq(b, 3, Len(b))) IN
         IF r = <<-1>> THEN r ELSE <<(b[1] - 192) * 64 + (b[2] - 128)>> \o r
    ELSE <<-1>>

\* struct.pack('<I', len(req_bytes)) + req_bytes
Frame(str) ==
    LET req_bytes == Utf8Encode(JsonDumps(str))
    IN  PackLE(Len(req_bytes)) \o req_bytes

\* the JSON string that starts behind its opening quote at position i of
\* text t: its characters and the position behind its closing quote
NoParse == [ok |-> FALSE, chars |-> <<>>, next |-> 0]
RECURSIVE ParseString(_, _)
ParseString(t, i) ==
    LET more(c, j) ==
            LET r == ParseString(t, j) IN
            IF r.ok THEN [r EXCEPT !.chars = <<c>> \o r.chars] ELSE NoParse
    IN
    IF i > Len(t) THEN NoParse
    ELSE IF t[i] = 34 THEN [ok |-> TRUE, chars |-> <<>>, next |-> i + 1]
    ELSE IF t[i] = 92
    THEN IF i + 1 > Len(t) THEN NoParse
         ELSE IF t[i + 1] \in {34, 92, 47} THEN more(t[i + 1], i + 2)
         ELSE IF t[i + 1] = 110 THEN more(10, i + 2)
         ELSE IF t[i + 1] = 117 /\ i + 5 <= Len(t)
                 /\ \A k \in 2..5 : HexValue(t[i + k]) >= 0
         THEN more(4096 * HexValue(t[i + 2]) + 256 * HexValue(t[i + 3])
                   + 16 * HexValue(t[i + 4]) + HexValue(t[i + 5]), i + 6)
         ELSE NoParse
    ELSE IF t[i] < 32 THEN NoParse
    ELSE more(t[i], i + 1)
\* json.loads of the text of an object with the one key sql: the dict, or
\* Undecodable where json.loads raises
JsonLoads(t) ==
    IF t = <<-1>> \/ Len(t) < Len(JsonHead)
       \/ SubSeq(t, 1, Len(JsonHead)) # JsonHead
    THEN Undecodable
    ELSE LET r == ParseString(t, Len(JsonHead) + 1) IN
         IF r.ok /\ SubSeq(t, r.next, Len(t)) = <<125>>
         THEN [sql |-> r.chars]
         ELSE Undecodable

\* sock.recv(k) on the echoed bytes, m = min(k, bytes available) > 0: one
\* byte, or one of the sizes of ChunkSizes
EchoChunkSizes(m) == ChunkSizes(m) \cup {1}

\* query(sql) up to sendall, on a connection whose peer sends every byte back
EchoSend ==
    /\ qpc = "idle" /\ sock = "connected"
    /\ \E str \in SqlStrings :
         /\ sql' = str
         /\ rx' = Frame(str)
    /\ qpc' = "recv_len" /\ need' = 4 /\ data' = <<>>
    /\ ioCalls' = 1 /\ consumed' = 0 /\ respLen' = NoLen /\ lastReq' = 0
    /\ result' = NoResult /\ raised' = FALSE /\ fault' = "none"
    /\ UNCHANGED <<sock, connRet, lastOp>>

\* one pass of the loop of _recv_exact on the echoed bytes, and what query
\* does once _recv_exact has returned
EchoRecv ==
    /\ qpc \in {"recv_len", "recv_body"}
    /\ Len(data) < need
    /\ LET req == RecvSize(need, Len(data)) IN
       /\ lastReq' = req
       /\ ioCalls' = ioCalls + 1
       /\ IF rx = <<>>
          THEN /\ QReturn(ShortRead(qpc), FALSE, "closed")
               /\ UNCHANGED <<rx, consumed, respLen>>
          ELSE \E c \in EchoChunkSizes(Min(req, Len(rx))) :
                 LET d == data \o SubSeq(rx, 1, c) IN
                 /\ rx' = SubSeq(rx, c + 1, Len(rx))
                 /\ consumed' = consumed + c
                 /\ IF Len(d) < need
                    THEN /\ data' = d
                         /\ UNCHANGED <<qpc, need, result, raised, fault,
                                        lastOp, respLen>>
                    ELSE IF qpc = "recv_len"
                    THEN /\ respLen' = UnpackLE(d)
                         /\ IF Guard(UnpackLE(d))
                            THEN QReturn(TooLarge, FALSE, "toolarge")
                            ELSE IF UnpackLE(d) = 0
                            THEN QRaise(DecodeError, "decode")
                            ELSE /\ qpc' = "recv_body" /\ need' = UnpackLE(d)
                                 /\ data' = <<>>
                                 /\ UNCHANGED <<result, raised, fault, lastOp>>
                    ELSE /\ respLen' = respLen
                         /\ IF JsonLoads(Utf8Decode(d)) = Undecodable
                            THEN QRaise(DecodeError, "decode")
                            ELSE QReturn(JsonLoads(Utf8Decode(d)), FALSE,
                                         "none")
    /\ UNCHANGED <<sock, connRet, sql>>

\* the dicts query can return on a client whose sock is s
QueryReturns(s) ==
    IF s = "None" THEN {NotConnected}
    ELSE {ConnClosed, TooLarge}
         \cup {ExcResp(e) : e \in SendErrors \cup RecvErrors \cup {DecodeError}}
         \cup {JsonOf(k) : k \in PayloadKinds \ {"garbage"}}

(***************************************************************************)
(* run_basic_tests: the declared remote cases and their predicates         *)
(***************************************************************************)
RemoteTests ==
    << "count_funcs", "list_funcs", "list_segments", "list_names",
       "invalid_table", "syntax_error" >>
NumRemote == Len(RemoteTests)
\* r['success']: KeyError (TypeError on a non-dict) when there is no such key
HasKey(r, k) == k \in DOMAIN r
\* test['check'](result): "True", "False", or "raise" when the lambda raises
Check(name, r) ==
    IF ~HasKey(r, "success") THEN "raise"
    ELSE CASE name = "count_funcs" ->
                IF ~r.success THEN "False"
                ELSE IF ~HasKey(r, "rows") THEN "raise"
                ELSE IF r.rows = 1 THEN "True" ELSE "False"
           [] name = "list_funcs" ->
                IF ~r.success THEN "False"
                ELSE IF ~HasKey(r, "columns") THEN "raise"
                ELSE IF "name" \in r.columns THEN "True" ELSE "False"
           [] name \in {"list_segments", "list_names"} ->
                IF r.success THEN "True" ELSE "False"
           [] OTHER ->
                IF ~r.success /\ HasKey(r, "error") THEN "True" ELSE "False"
\* r['result'].get('error', '')
GetError(r) == IF HasKey(r, "error") THEN r.error ELSE ""
\* the answers of query the harness run is checked against
RemoteAnswers ==
    {ConnClosed, TooLarge, ExcResp("timed out"), OkFull, OkBare, AppErr,
     NoSuccessKey}
\* what a healthy server answers to the query of a case
Nominal(name) ==
    IF name \in {"invalid_table", "syntax_error"} THEN AppErr ELSE OkFull
\* the cases so far that got another answer
Faults(results) ==
    Cardinality({i \in 1..Len(results) :
                    results[i].result # Nominal(results[i].name)})
\* the list comprehension of run_remote_tests
Convert(results) ==
    [i \in 1..Len(results) |->
        [name |-> "cli_remote_" \o results[i].name,
         passed |-> results[i].passed,
         error |-> IF ~results[i].passed THEN GetError(results[i].result)
                   ELSE ""]]
RemoteConnectFailed ==
    << [name |-> "remote_connect", passed |-> FALSE,
        error |-> "Failed to connect"] >>

(***************************************************************************)
(* define_cli_local_tests and the body of the loop of run_cli_local_tests  *)
(***************************************************************************)
LocalTests ==
    << [name |-> "cli_local_count_funcs", mode |-> "query", wantRc0 |-> TRUE],
       [name |-> "cli_local_list_funcs", mode |-> "query", wantRc0 |-> TRUE],
       [name |-> "cli_local_list_segments", mode |-> "query", wantRc0 |-> TRUE],
       [name |-> "cli_local_invalid_table", mode |-> "query", wantRc0 |-> FALSE],
       [name |-> "cli_local_syntax_error", mode |-> "query", wantRc0 |-> FALSE],
       [name |-> "cli_interactive_tables", mode |-> "interactive",
        wantRc0 |-> TRUE],
       [name |-> "cli_interactive_query", mode |-> "interactive",
        wantRc0 |-> TRUE] >>
NumLocal == Len(LocalTests)
\* what subprocess.run does for one case: it times out, it (or the try body)
\* raises, or it completes with a return code and an output that holds the
\* expected names (marks) and the word "error" (err), or not
LocalOutcomes ==
    { [kind |-> "timeout"], [kind |-> "raise"] }
    \cup { [kind |-> "done", rc |-> rc, marks |-> m, err |-> e] :
             rc \in {0, 1}, m \in BOOLEAN, e \in BOOLEAN }
\* test['check'](output, result.returncode)
LocalCheck(test, o) ==
    IF test.wantRc0 THEN o.rc = 0 /\ o.marks ELSE o.rc # 0 /\ o.err
CliNotFound ==
    << [name |-> "cli_not_found", passed |-> FALSE,
        error |-> "CLI executable not found"] >>
\* a mutant: the TimeoutExpired handler records nothing
LocalResultDropsTimeout(test, o) ==
    CASE o.kind = "timeout" -> <<>>
      [] o.kind = "raise" ->
            << [name |-> test.name, passed |-> FALSE, error |-> "exception"] >>
      [] OTHER ->
            << [name |-> test.name, passed |-> LocalCheck(test, o),
                error |-> ""] >>
\* a mutant: the TimeoutExpired handler records the case as passed
LocalResultTimeoutPasses(test, o) ==
    CASE o.kind = "timeout" ->
            << [name |-> test.name, passed |-> TRUE, error |-> "Timeout"] >>
      [] o.kind = "raise" ->
            << [name |-> test.name, passed |-> FALSE, error |-> "exception"] >>
      [] OTHER ->
            << [name |-> test.name, passed |-> LocalCheck(test, o),
                error |-> ""] >>
\* the entry one pass of the loop appends to results
LocalResult(test, o) ==
    CASE o.kind = "timeout" ->
            << [name |-> test.name, passed |-> FALSE, error |-> "Timeout"] >>
      [] o.kind = "raise" ->
            << [name |-> test.name, passed |-> FALSE, error |-> "exception"] >>
      [] OTHER ->
            << [name |-> test.name, passed |-> LocalCheck(test, o),
                error |-> ""] >>

(***************************************************************************)
(* print_results: (passed, failed)                                         *)
(***************************************************************************)
RECURSIVE CountPassed(_)
CountPassed(results) ==
    IF results = <<>> THEN 0
    ELSE (IF Head(results).passed THEN 1 ELSE 0) + CountPassed(Tail(results))
PrintResults(results) ==
    [passed |-> CountPassed(results),
     failed |-> Len(results) - CountPassed(results)]

(***************************************************************************)
(* The harness process: main() and TestHarness.run                         *)
(***************************************************************************)
NoCode == -1
\* timeout = 30  # seconds
ProbeTimeout == 30
\* the probe loop's clock counts ticks of half a second: time.sleep(0.5) is
\* one tick, connect(timeout=1.0) gives up after two
SleepTicks == 1
ConnectTimeout == 2
\* the deadline of the probe loop in ticks
Deadline == ProbeTimeout * 2

ctlVars == <<pc, exitCode, retval, exc, buildOk>>
resVars == <<idx, localResults, basicResults, remoteResults, totalPassed,
             totalFailed, ranPassed, ranFailed, predRaised, groupsRun>>
drvVars == <<startOk, driver_process, proc, elapsed, launches, stopCalls,
             stopLog, termSent, readyVia, probeOutcome, outBuf, drained, outShown>>
outVars == <<outBuf, drained, outShown>>
sockVars == <<probeSock, testSock>>

HarnessInit ==
    /\ pc = "main" /\ exitCode = NoCode /\ retval = NoCode /\ exc = "none"
    /\ buildOk = "none" /\ startOk = "none" /\ idx = 0
    /\ localResults = <<>> /\ basicResults = <<>> /\ remoteResults = <<>>
    /\ totalPassed = 0 /\ totalFailed = 0
    /\ driver_process = "None" /\ proc = "notlaunched" /\ elapsed = 0
    /\ probeSock = "None" /\ testSock = "None"
    /\ launches = 0 /\ stopCalls = 0 /\ termSent = FALSE /\ readyVia = "none"
    /\ stopLog = <<>>
    /\ probeOutcome = "none" /\ outBuf = "empty" /\ drained = FALSE
    /\ outShown = 0
    /\ ranPassed = 0 /\ ranFailed = 0 /\ predRaised = {} /\ groupsRun = {}

\* a mutant: counted failures turn the return code 3 into 1
ReturnFailuresFirst(code) ==
    /\ pc' = "finally" /\ exc' = exc
    /\ retval' = IF code = 3 /\ totalFailed > 0 THEN 1 ELSE code
\* the try block is left with return code (the finally clause runs next)
Return(code) == pc' = "finally" /\ retval' = code /\ exc' = exc
\* the try block is left by exception e
Raise(e) == pc' = "finally" /\ exc' = e /\ retval' = retval

\* main(): TestHarness(...) raises RuntimeError (IDASDK not set, test
\* database not found), caught by main's except clause, or run() is entered
Main ==
    /\ pc = "main"
    /\ \/ /\ pc' = "done" /\ exc' = "ctor" /\ exitCode' = 1
          /\ UNCHANGED <<retval, buildOk>>
       \/ /\ pc' = "build"
          /\ UNCHANGED <<exitCode, retval, exc, buildOk>>
    /\ UNCHANGED <<resVars, drvVars, sockVars>>

\* a mutant: run goes on when build_all returned False
BuildAllIgnoresFailure ==
    /\ pc = "build"
    /\ \E o \in {"ok", "fail", "raise"} :
         CASE o = "ok" -> pc' = "local" /\ buildOk' = "True"
                          /\ UNCHANGED <<retval, exc>>
           [] o = "fail" -> pc' = "local" /\ buildOk' = "False"
                            /\ UNCHANGED <<retval, exc>>
           [] OTHER -> Raise("build") /\ buildOk' = buildOk
    /\ UNCHANGED <<exitCode, resVars, drvVars, sockVars>>
\* a mutant: run starts the driver before the local cases
BuildAllThenDriver ==
    /\ pc = "build"
    /\ \E o \in {"ok", "fail", "raise"} :
         CASE o = "ok" -> pc' = "start" /\ buildOk' = "True"
                          /\ UNCHANGED <<retval, exc>>
           [] o = "fail" -> Return(2) /\ buildOk' = "False"
           [] OTHER -> Raise("build") /\ buildOk' = buildOk
    /\ UNCHANGED <<exitCode, resVars, drvVars, sockVars>>
\* if not self.build_all(): return 2.  build_all returns True (built, or
\* --skip-build), returns False (a cmake step failed), or raises (cmake is
\* not in PATH, a copy fails)
BuildAll ==
    /\ pc = "build"
    /\ \E o \in {"ok", "fail", "raise"} :
         CASE o = "ok" -> pc' = "local" /\ buildOk' = "True"
                          /\ UNCHANGED <<retval, exc>>
           [] o = "fail" -> Return(2) /\ buildOk' = "False"
           [] OTHER -> Raise("build") /\ buildOk' = buildOk
    /\ UNCHANGED <<exitCode, resVars, drvVars, sockVars>>

\* run_cli_local_tests up to its loop: the CLI executable exists or not
LocalStart ==
    /\ pc = "local"
    /\ \/ /\ localResults' = CliNotFound
          /\ ranFailed' = ranFailed + 1
          /\ pc' = "print_local"
          /\ idx' = idx
       \/ /\ localResults' = <<>>
          /\ idx' = 0
          /\ pc' = "local_case"
          /\ ranFailed' = ranFailed
    /\ UNCHANGED <<exitCode, retval, exc, buildOk, basicResults,
                   remoteResults, totalPassed, totalFailed, ranPassed,
                   predRaised, groupsRun, drvVars, sockVars>>

\* one pass of the loop of run_cli_local_tests; after the last, return results
LocalCase ==
    /\ pc = "local_case" /\ idx < NumLocal
    /\ \E o \in LocalOutcomes :
         LET add == LocalResult(LocalTests[idx + 1], o)
             np == PrintResults(add).passed
         IN  /\ localResults' = localResults \o add
             /\ ranPassed' = ranPassed + np
             /\ ranFailed' = ranFailed + (1 - np)
    /\ idx' = idx + 1
    /\ pc' = IF idx + 1 = NumLocal THEN "print_local" ELSE "local_case"
    /\ UNCHANGED <<exitCode, retval, exc, buildOk, basicResults,
                   remoteResults, totalPassed, totalFailed, predRaised,
                   groupsRun, drvVars, sockVars>>

\* p, f = self.print_results(local_results, ...); total_passed += p;
\* total_failed += f.  local_results is not read again.
PrintLocal ==
    /\ pc = "print_local"
    /\ totalPassed' = totalPassed + PrintResults(localResults).passed
    /\ totalFailed' = totalFailed + PrintResults(localResults).failed
    /\ groupsRun' = groupsRun \cup {"local"}
    /\ localResults' = <<>>
    /\ pc' = "start"
    /\ UNCHANGED <<exitCode, retval, exc, buildOk, idx, basicResults,
                   remoteResults, ranPassed, ranFailed, predRaised, drvVars,
                   sockVars>>

(***************************************************************************)
(* start_driver                                                            *)
(***************************************************************************)
\* start_driver up to its loop: the driver executable is missing (return
\* False, so run returns 3), Popen raises, or the server is launched
StartDriver ==
    /\ pc = "start"
    /\ \/ /\ startOk' = "False" /\ Return(3)
          /\ UNCHANGED <<driver_process, proc, elapsed, launches>>
       \/ /\ Raise("popen")
          /\ UNCHANGED <<startOk, driver_process, proc, elapsed, launches>>
       \/ /\ driver_process' = "Popen" /\ proc' = "starting"
          /\ launches' = launches + 1
          /\ elapsed' = 0
          /\ pc' = "probe"
          /\ UNCHANGED <<startOk, retval, exc>>
    /\ UNCHANGED <<exitCode, buildOk, stopCalls, stopLog, termSent, readyVia,
                   probeOutcome, outVars, resVars, sockVars>>

\* self.driver_process.stdout.read() once the process has exited: what has
\* not been read yet
ReadOutput(buf, dr) == IF dr THEN "empty" ELSE buf

\* a mutant: the loop does not look at the process
ProbePollNoExitCheck ==
    /\ pc = "probe"
    /\ IF elapsed >= Deadline
       THEN /\ startOk' = "False" /\ Return(3) /\ elapsed' = 0
            /\ probeOutcome' = "timeout"
       ELSE /\ pc' = "probe_connect"
            /\ UNCHANGED <<startOk, retval, exc, elapsed, probeOutcome>>
    /\ UNCHANGED <<exitCode, buildOk, driver_process, proc, launches,
                   stopCalls, stopLog, termSent, readyVia, outVars, resVars, sockVars>>
\* a mutant: while True
ProbePollNoDeadline ==
    /\ pc = "probe"
    /\ IF proc = "exited"
       THEN /\ startOk' = "False" /\ Return(3) /\ elapsed' = 0
            /\ probeOutcome' = "exited"
            /\ drained' = TRUE
            /\ outShown' = outShown
                    + (IF ReadOutput(outBuf, drained) = "text" THEN 1 ELSE 0)
       ELSE /\ pc' = "probe_connect"
            /\ UNCHANGED <<startOk, retval, exc, elapsed, probeOutcome,
                           drained, outShown>>
    /\ UNCHANGED <<exitCode, buildOk, driver_process, proc, launches,
                   stopCalls, stopLog, termSent, readyVia, outBuf, resVars, sockVars>>
\* while time.time() - start_time < timeout: if poll() is not None: read the
\* output, log it, return False; after the loop: log the timeout, return
\* False
ProbePoll ==
    /\ pc = "probe"
    /\ IF elapsed >= Deadline
       THEN /\ startOk' = "False" /\ Return(3) /\ elapsed' = 0
            /\ probeOutcome' = "timeout"
            /\ UNCHANGED <<drained, outShown>>
       ELSE IF proc = "exited"
       THEN /\ startOk' = "False" /\ Return(3) /\ elapsed' = 0
            /\ probeOutcome' = "exited"
            /\ drained' = TRUE
            /\ outShown' = outShown
                    + (IF ReadOutput(outBuf, drained) = "text" THEN 1 ELSE 0)
       ELSE /\ pc' = "probe_connect"
            /\ UNCHANGED <<startOk, retval, exc, elapsed, probeOutcome,
                           drained, outShown>>
    /\ UNCHANGED <<exitCode, buildOk, driver_process, proc, launches,
                   stopCalls, stopLog, termSent, readyVia, outBuf, resVars, sockVars>>

\* a mutant: a probe that fails launches the server again
ProbeConnectRelaunches ==
    /\ pc = "probe_connect"
    /\ \E o \in ConnectOutcomes :
         LET c == ConnectResult("None", o) IN
         /\ probeSock' = c.sock
         /\ IF c.ret = "True"
            THEN /\ \E by \in {"server", "other"} :
                       /\ by = "server" => proc = "listening"
                       /\ readyVia' = by
                 /\ pc' = "probe_ready"
            ELSE /\ pc' = "start"
                 /\ readyVia' = readyVia
    /\ UNCHANGED <<exitCode, retval, exc, buildOk, startOk, driver_process,
                   proc, elapsed, launches, stopCalls, stopLog, termSent, probeOutcome,
                   outVars, testSock, resVars>>
\* client = IdasqlClient(); client.connect(timeout=1.0); when it fails,
\* time.sleep(0.5).  The connection is accepted by the server once it
\* listens, or by whatever else listens on the port.
ProbeConnect ==
    /\ pc = "probe_connect"
    /\ \E o \in ConnectOutcomes :
         LET c == ConnectResult("None", o) IN
         /\ probeSock' = c.sock
         /\ IF c.ret = "True"
            THEN /\ \E by \in {"server", "other"} :
                       /\ by = "server" => proc = "listening"
                       /\ readyVia' = by
                 /\ pc' = "probe_ready"
                 /\ elapsed' = elapsed
            ELSE /\ \E d \in 0..ConnectTimeout :
                       elapsed' = elapsed + d + SleepTicks
                 /\ pc' = "probe"
                 /\ readyVia' = readyVia
    /\ UNCHANGED <<exitCode, retval, exc, buildOk, startOk, driver_process,
                   proc, launches, stopCalls, stopLog, termSent, probeOutcome, outVars,
                   testSock, resVars>>

\* a mutant: the loop goes on after the probe connected
ProbeReadyKeepsProbing ==
    /\ pc = "probe_ready"
    /\ \E closeFails \in BOOLEAN :
         probeSock' = DisconnectResult(probeSock, closeFails).sock
    /\ probeOutcome' = "ready"
    /\ pc' = "probe"
    /\ UNCHANGED <<exitCode, retval, exc, buildOk, startOk, driver_process,
                   proc, elapsed, launches, stopCalls, stopLog, termSent,
                   readyVia, outVars, testSock, resVars>>
\* if client.connect(timeout=1.0): client.disconnect(); return True
ProbeReady ==
    /\ pc = "probe_ready"
    /\ \E closeFails \in BOOLEAN :
         probeSock' = DisconnectResult(probeSock, closeFails).sock
    /\ startOk' = "True"
    /\ probeOutcome' = "ready"
    /\ elapsed' = 0
    /\ pc' = "remote"
    /\ UNCHANGED <<exitCode, retval, exc, buildOk, driver_process, proc,
                   launches, stopCalls, stopLog, termSent, readyVia, outVars, testSock,
                   resVars>>

\* the server process, on its own: it starts to listen, or it exits
ServerListens ==
    /\ proc = "starting" /\ pc # "done"
    /\ proc' = "listening"
    /\ UNCHANGED <<ctlVars, resVars, sockVars, startOk, driver_process,
                   elapsed, launches, stopCalls, stopLog, termSent, readyVia,
                   probeOutcome, outVars>>
DriverExits ==
    /\ proc \in {"starting", "listening"} /\ pc # "done"
    /\ proc' = "exited"
    /\ UNCHANGED <<ctlVars, resVars, sockVars, startOk, driver_process,
                   elapsed, launches, stopCalls, stopLog, termSent, readyVia,
                   probeOutcome, outVars>>
\* the server process writes to its stdout/stderr pipe (stdout=PIPE,
\* stderr=STDOUT)
ServerWrites ==
    /\ proc \in {"starting", "listening"} /\ pc # "done"
    /\ outBuf = "empty"
    /\ outBuf' \in {"blank", "text"}
    /\ UNCHANGED <<ctlVars, resVars, sockVars, startOk, driver_process, proc,
                   elapsed, launches, stopCalls, stopLog, termSent, readyVia,
                   probeOutcome, drained, outShown>>

(***************************************************************************)
(* run_remote_tests and run_basic_tests                                    *)
(***************************************************************************)
\* client = IdasqlClient(); if not client.connect(): return [remote_connect]
RemoteStart ==
    /\ pc = "remote"
    /\ \E o \in ConnectOutcomes :
         LET c == ConnectResult("None", o) IN
         /\ testSock' = c.sock
         /\ IF c.ret = "True"
            THEN /\ pc' = "basic" /\ idx' = 0 /\ basicResults' = <<>>
                 /\ UNCHANGED <<remoteResults, ranFailed>>
            ELSE /\ remoteResults' = RemoteConnectFailed
                 /\ ranFailed' = ranFailed + 1
                 /\ pc' = "print_remote"
                 /\ UNCHANGED <<idx, basicResults>>
    /\ UNCHANGED <<exitCode, retval, exc, buildOk, localResults, totalPassed,
                   totalFailed, ranPassed, predRaised, groupsRun, probeSock,
                   drvVars>>

\* one pass of the loop of run_basic_tests: result = client.query(sql);
\* passed = test['check'](result); results.append(...)
RemoteCase ==
    /\ pc = "basic" /\ idx < NumRemote
    /\ \E r \in RemoteAnswers \cap QueryReturns(testSock) :
         LET name == RemoteTests[idx + 1]
             v == Check(name, r)
         IN  /\ r = Nominal(name) \/ Faults(basicResults) < MaxFaults
             /\ IF v = "raise"
                THEN /\ Raise("predicate")
                     /\ predRaised' = predRaised \cup {name}
                     /\ UNCHANGED <<idx, basicResults, ranPassed, ranFailed>>
                ELSE /\ basicResults' = Append(basicResults,
                           [name |-> name, passed |-> (v = "True"),
                            result |-> r])
                     /\ idx' = idx + 1
                     /\ ranPassed' = ranPassed + (IF v = "True" THEN 1 ELSE 0)
                     /\ ranFailed' = ranFailed + (IF v = "True" THEN 0 ELSE 1)
                     /\ UNCHANGED <<pc, retval, exc, predRaised>>
    /\ UNCHANGED <<exitCode, buildOk, localResults, remoteResults,
                   totalPassed, totalFailed, groupsRun, drvVars, sockVars>>

\* run_basic_tests returns; client.disconnect(); return the converted list
RemoteDone ==
    /\ pc = "basic" /\ idx = NumRemote
    /\ \E closeFails \in BOOLEAN :
         testSock' = DisconnectResult(testSock, closeFails).sock
    /\ remoteResults' = Convert(basicResults)
    /\ pc' = "print_remote"
    /\ UNCHANGED <<exitCode, retval, exc, buildOk, idx, localResults,
                   basicResults, totalPassed, totalFailed, ranPassed,
                   ranFailed, predRaised, groupsRun, probeSock, drvVars>>

\* a mutant: the exit code looks at nothing
ExitOfAlwaysZero(total_failed) == 0
\* return 0 if total_failed == 0 else 1
ExitOf(total_failed) == IF total_failed = 0 THEN 0 ELSE 1

\* p, f = self.print_results(remote_results, ...); the grand total; return
PrintRemote ==
    /\ pc = "print_remote"
    /\ totalPassed' = totalPassed + PrintResults(remoteResults).passed
    /\ totalFailed' = totalFailed + PrintResults(remoteResults).failed
    /\ groupsRun' = groupsRun \cup {"remote"}
    /\ Return(ExitOf(totalFailed'))
    /\ UNCHANGED <<exitCode, buildOk, idx, localResults, basicResults,
                   remoteResults, ranPassed, ranFailed, predRaised, drvVars,
                   sockVars>>

(***************************************************************************)
(* stop_driver, the finally clause of run, and the end of main             *)
(***************************************************************************)
\* stop_driver: terminate, wait (kill and wait when the 5 s pass), read the
\* output, self.driver_process = None; nothing when there is no process
StopDriver(dp, p, t) ==
    IF dp # "None"
    THEN [driver_process |-> "None", proc |-> "exited", termSent |-> TRUE]
    ELSE [driver_process |-> dp, proc |-> p, termSent |-> t]

\* a mutant: stop_driver kills without waiting for the grace period
StopCallsKillAtOnce(dp, p, inGrace) ==
    IF dp = "None" THEN <<>>
    ELSE <<"terminate", "kill", "wait", "read">>
\* the calls of stop_driver on the process, in order: terminate(),
\* wait(timeout=5) that returns (the process has exited, or exits within the
\* 5 s) or raises TimeoutExpired, then kill() and wait(), and
\* stdout.read(); none when self.driver_process is None
StopCalls(dp, p, inGrace) ==
    IF dp = "None" THEN <<>>
    ELSE IF p = "exited" \/ inGrace
    THEN <<"terminate", "wait_exited", "read">>
    ELSE <<"terminate", "wait_timeout", "kill", "wait", "read">>

\* a mutant: stop_driver prints nothing
StopOutputSilent(dp, buf, dr, shown) ==
    IF dp # "None" THEN [drained |-> TRUE, outShown |-> shown]
    ELSE [drained |-> dr, outShown |-> shown]
\* stop_driver: output = self.driver_process.stdout.read(); if
\* output.strip(): print(f"[driver output]\n{output}")
StopOutput(dp, buf, dr, shown) ==
    IF dp # "None"
    THEN [drained |-> TRUE,
          outShown |-> shown + (IF ReadOutput(buf, dr) = "text" THEN 1 ELSE 0)]
    ELSE [drained |-> dr, outShown |-> shown]

\* a mutant: stop_driver is called at the end of the try block, not in a
\* finally clause
FinallyOnlyOnReturn ==
    /\ pc = "finally"
    /\ LET s == IF exc = "none" THEN StopDriver(driver_process, proc, termSent)
                ELSE [driver_process |-> driver_process, proc |-> proc,
                      termSent |-> termSent]
       IN  /\ driver_process' = s.driver_process
           /\ proc' = s.proc
           /\ termSent' = s.termSent
    /\ LET o == IF exc = "none"
                THEN StopOutput(driver_process, outBuf, drained, outShown)
                ELSE [drained |-> drained, outShown |-> outShown]
       IN  drained' = o.drained /\ outShown' = o.outShown
    /\ stopCalls' = stopCalls + (IF exc = "none" THEN 1 ELSE 0)
    /\ \E inGrace \in (IF proc \in {"starting", "listening"}
                        THEN BOOLEAN ELSE {TRUE}) :
         stopLog' = IF exc = "none"
                    THEN stopLog \o StopCalls(driver_process, proc, inGrace)
                    ELSE stopLog
    /\ exitCode' = IF exc # "none" THEN 1 ELSE retval
    /\ pc' = "done"
    /\ UNCHANGED <<retval, exc, buildOk, startOk, elapsed, launches, readyVia,
                   probeOutcome, outBuf, resVars, sockVars>>
\* finally: self.stop_driver(); then main: sys.exit(harness.run()), or
\* except Exception: sys.exit(1)
Finally ==
    /\ pc = "finally"
    /\ LET s == StopDriver(driver_process, proc, termSent)
       IN  /\ driver_process' = s.driver_process
           /\ proc' = s.proc
           /\ termSent' = s.termSent
    /\ LET o == StopOutput(driver_process, outBuf, drained, outShown)
       IN  drained' = o.drained /\ outShown' = o.outShown
    /\ stopCalls' = stopCalls + 1
    /\ \E inGrace \in (IF proc \in {"starting", "listening"}
                        THEN BOOLEAN ELSE {TRUE}) :
         stopLog' = stopLog \o StopCalls(driver_process, proc, inGrace)
    /\ exitCode' = IF exc # "none" THEN 1 ELSE retval
    /\ pc' = "done"
    /\ UNCHANGED <<retval, exc, buildOk, startOk, elapsed, launches, readyVia,
                   probeOutcome, outBuf, resVars, sockVars>>

(***************************************************************************)
(* scripts/embed_prompt.py: split_content and the literals of embed_prompt *)
(* over texts of the characters a, b and newline; text is a sequence of    *)
(* character codes.                                                        *)
(***************************************************************************)
Newline == 10
TextChars == {97, 98, Newline}
Texts == UNION {[1..n -> TextChars] : n \in 0..MaxTextLen}

\* the index of the first occurrence of w in s at or after i, 0 when none
RECURSIVE Find(_, _, _)
Find(s, w, i) ==
    IF i + Len(w) - 1 > Len(s) THEN 0
    ELSE IF SubSeq(s, i, i + Len(w) - 1) = w THEN i
    ELSE Find(s, w, i + 1)
\* content.split('\n')
RECURSIVE Split(_)
Split(s) ==
    LET i == Find(s, <<Newline>>, 1) IN
    IF i = 0 THEN <<s>>
    ELSE <<SubSeq(s, 1, i - 1)>> \o Split(SubSeq(s, i + 1, Len(s)))
\* sep.join(parts)
RECURSIVE Join(_, _)
Join(sep, parts) ==
    IF parts = <<>> THEN <<>>
    ELSE IF Len(parts) = 1 THEN parts[1]
    ELSE parts[1] \o sep \o Join(sep, Tail(parts))

\* R"PROMPT( and )PROMPT" around a chunk, and '\n    ' between the parts
LiteralOpen == <<82, 34, 80, 82, 79, 77, 80, 84, 40>>
LiteralClose == <<41, 80, 82, 79, 77, 80, 84, 34>>
PartSeparator == <<Newline, 32, 32, 32, 32>>
\* f'R"{delimiter}({chunk}){delimiter}"'
RawLiteral(chunk) == LiteralOpen \o chunk \o LiteralClose
\* string_literal of embed_prompt for the chunks cs
StringLiteral(cs) ==
    IF Len(cs) = 1 THEN RawLiteral(cs[1])
    ELSE Join(PartSeparator, [i \in 1..Len(cs) |-> RawLiteral(cs[i])])

\* the value a C++ compiler gives to a sequence of adjacent raw string
\* literals: white space between them is skipped, each literal ends at the
\* first )PROMPT", and the contents are concatenated
RECURSIVE CppValue(_)
CppValue(t) ==
    IF t = <<>> THEN <<>>
    ELSE IF Head(t) \in {Newline, 32} THEN CppValue(Tail(t))
    ELSE LET body == SubSeq(t, Len(LiteralOpen) + 1, Len(t))
             e == Find(body, LiteralClose, 1)
         IN  SubSeq(body, 1, e - 1)
                \o CppValue(SubSeq(body, e + Len(LiteralClose), Len(body)))

\* nothing of embed_prompt runs
EmbedIdle ==
    /\ epc = "idle" /\ content = <<>> /\ max_chunk = 1 /\ lines = <<>>
    /\ chunks = <<>> /\ current_chunk = <<>> /\ current_size = 0
    /\ string_literal = <<>>

\* chunks = []; lines = content.split('\n'); current_chunk = [];
\* current_size = 0
SplitStart ==
    /\ epc = "split"
    /\ lines' = Split(content)
    /\ chunks' = <<>> /\ current_chunk' = <<>> /\ current_size' = 0
    /\ epc' = "loop"
    /\ UNCHANGED <<content, max_chunk, string_literal>>

\* one pass of for line in lines
SplitLine ==
    /\ epc = "loop" /\ lines # <<>>
    /\ LET line == Head(lines)
           line_size == Len(line) + 1
       IN  IF current_size + line_size > max_chunk /\ current_chunk # <<>>
           THEN /\ chunks' = Append(chunks, Join(<<Newline>>, current_chunk))
                /\ current_chunk' = <<line>>
                /\ current_size' = line_size
           ELSE /\ current_chunk' = Append(current_chunk, line)
                /\ current_size' = current_size + line_size
                /\ chunks' = chunks
    /\ lines' = Tail(lines)
    /\ UNCHANGED <<epc, content, max_chunk, string_literal>>

\* if current_chunk: chunks.append('\n'.join(current_chunk)); return chunks
SplitEnd ==
    /\ epc = "loop" /\ lines = <<>>
    /\ chunks' = IF current_chunk # <<>>
                 THEN Append(chunks, Join(<<Newline>>, current_chunk))
                 ELSE chunks
    /\ epc' = "embed"
    /\ UNCHANGED <<content, max_chunk, lines, current_chunk, current_size,
                   string_literal>>

\* embed_prompt builds string_literal from the chunks
EmbedLiteral ==
    /\ epc = "embed"
    /\ string_literal' = StringLiteral(chunks)
    /\ epc' = "done"
    /\ UNCHANGED <<content, max_chunk, lines, chunks, current_chunk,
                   current_size>>

(***************************************************************************)
(* The specifications                                                      *)
(***************************************************************************)
Init == HarnessInit /\ ClientInit /\ EmbedIdle

Next ==
    \/ (Main /\ UNCHANGED <<cvars, evars>>)
    \/ (BuildAll /\ UNCHANGED <<cvars, evars>>)
    \/ (LocalStart /\ UNCHANGED <<cvars, evars>>)
    \/ (LocalCase /\ UNCHANGED <<cvars, evars>>)
    \/ (PrintLocal /\ UNCHANGED <<cvars, evars>>)
    \/ (StartDriver /\ UNCHANGED <<cvars, evars>>)
    \/ (ProbePoll /\ UNCHANGED <<cvars, evars>>)
    \/ (ProbeConnect /\ UNCHANGED <<cvars, evars>>)
    \/ (ProbeReady /\ UNCHANGED <<cvars, evars>>)
    \/ (ServerListens /\ UNCHANGED <<cvars, evars>>)
    \/ (DriverExits /\ UNCHANGED <<cvars, evars>>)
    \/ (ServerWrites /\ UNCHANGED <<cvars, evars>>)
    \/ (RemoteStart /\ UNCHANGED <<cvars, evars>>)
    \/ (RemoteCase /\ UNCHANGED <<cvars, evars>>)
    \/ (RemoteDone /\ UNCHANGED <<cvars, evars>>)
    \/ (PrintRemote /\ UNCHANGED <<cvars, evars>>)
    \/ (Finally /\ UNCHANGED <<cvars, evars>>)

\* one harness run
Spec == Init /\ [][Next]_vars

ClientStep ==
    \/ (Connect /\ UNCHANGED <<hvars, evars, sql, paired>>)
    \/ (Disconnect /\ UNCHANGED <<hvars, evars, sql, paired>>)
    \/ (QueryNotConnected /\ UNCHANGED <<hvars, evars, sql>>)
    \/ (QuerySend /\ UNCHANGED <<hvars, evars, sql>>)
    \/ (Recv /\ UNCHANGED <<hvars, evars, sql, paired>>)

\* one client under an arbitrary caller
SpecClient == Init /\ [][ClientStep]_vars

\* the states in which run calls start_driver: built, the local group run
\* and printed (the CLI missing, or k of its cases passed)
ProbeInit ==
    /\ ClientInit /\ EmbedIdle
    /\ pc = "start" /\ exitCode = NoCode /\ retval = NoCode /\ exc = "none"
    /\ buildOk = "True" /\ startOk = "none"
    /\ localResults = <<>> /\ basicResults = <<>> /\ remoteResults = <<>>
    /\ \/ /\ idx = 0 /\ totalPassed = 0 /\ totalFailed = 1
       \/ /\ idx = NumLocal /\ totalPassed \in 0..NumLocal
          /\ totalFailed = NumLocal - totalPassed
    /\ ranPassed = totalPassed /\ ranFailed = totalFailed
    /\ driver_process = "None" /\ proc = "notlaunched" /\ elapsed = 0
    /\ probeSock = "None" /\ testSock = "None"
    /\ launches = 0 /\ stopCalls = 0 /\ termSent = FALSE /\ readyVia = "none"
    /\ stopLog = <<>>
    /\ probeOutcome = "none" /\ outBuf = "empty" /\ drained = FALSE
    /\ outShown = 0
    /\ predRaised = {} /\ groupsRun = {"local"}

ProbeStep ==
    \/ (StartDriver /\ UNCHANGED <<cvars, evars>>)
    \/ (ProbePoll /\ UNCHANGED <<cvars, evars>>)
    \/ (ProbeConnect /\ UNCHANGED <<cvars, evars>>)
    \/ (ProbeReady /\ UNCHANGED <<cvars, evars>>)
    \/ (ServerListens /\ UNCHANGED <<cvars, evars>>)
    \/ (DriverExits /\ UNCHANGED <<cvars, evars>>)
    \/ (ServerWrites /\ UNCHANGED <<cvars, evars>>)

\* start_driver alone.  The harness is one thread: poll() does not block,
\* connect gives up after its timeout and sleep returns, so each step of the
\* loop that is due is taken.
SpecProbe ==
    /\ ProbeInit /\ [][ProbeStep]_vars
    /\ WF_vars(ProbePoll /\ UNCHANGED <<cvars, evars>>)
    /\ WF_vars(ProbeConnect /\ UNCHANGED <<cvars, evars>>)
    /\ WF_vars(ProbeReady /\ UNCHANGED <<cvars, evars>>)

EchoStep ==
    \/ (Connect /\ UNCHANGED <<hvars, evars, sql, paired>>)
    \/ (EchoSend /\ UNCHANGED <<hvars, evars, paired>>)
    \/ (EchoRecv /\ UNCHANGED <<hvars, evars, paired>>)

\* one client whose peer echoes every request
SpecEcho == Init /\ [][EchoStep]_vars

\* embed_prompt on a text, split with some max_chunk
EmbedInit ==
    /\ HarnessInit /\ ClientInit
    /\ epc = "split" /\ content \in Texts /\ max_chunk \in 1..MaxChunkSize
    /\ lines = <<>> /\ chunks = <<>> /\ current_chunk = <<>>
    /\ current_size = 0 /\ string_literal = <<>>

EmbedStep ==
    \/ (SplitStart /\ UNCHANGED <<cvars, hvars>>)
    \/ (SplitLine /\ UNCHANGED <<cvars, hvars>>)
    \/ (SplitEnd /\ UNCHANGED <<cvars, hvars>>)
    \/ (EmbedLiteral /\ UNCHANGED <<cvars, hvars>>)

SpecEmbed == EmbedInit /\ [][EmbedStep]_vars

(***************************************************************************)
(* Claims                                                                  *)
(***************************************************************************)

C2_RunOrder ==
    /\ (pc \in {"local", "local_case", "print_local"} =>
            launches = 0 /\ proc = "notlaunched" /\ startOk = "none")
    /\ (launches > 0 \/ startOk # "none" => "local" \in groupsRun)
    /\ (pc = "basic" =>
            startOk = "True" /\ ~termSent /\ driver_process = "Popen")
    /\ (basicResults # <<>> \/ predRaised # {} => startOk = "True")
    /\ (termSent => pc = "done")
\* a remote case has been answered, after Ready and the local group
C2_Witness ==
    /\ pc = "basic" /\ idx = 3 /\ startOk = "True" /\ ~termSent
    /\ "local" \in groupsRun /\ totalPassed = NumLocal

\* C3: when run has finished, by return or by exception, stop_driver has
\* run, driver_process is None and a launched server process has stopped.
C3_StopDriverOnEveryExit ==
    pc = "done" /\ exc # "ctor" =>
        /\ stopCalls = 1
        /\ driver_process = "None"
        /\ (launches > 0 => proc = "exited" /\ termSent)
        /\ (launches = 0 => proc = "notlaunched")
\* run left by the exception of a remote predicate, the server stopped
C3_Witness ==
    /\ pc = "done" /\ exc = "predicate" /\ launches = 1 /\ proc = "exited"
    /\ stopCalls = 1 /\ driver_process = "None"

\* C4 as stated: a case whose predicate raised has a failed result that
\* carries the error text, and every remote case has its result.
C4_PredicateRaiseRecorded ==
    pc = "done" =>
        \A n \in predRaised :
            /\ Len(remoteResults) = NumRemote
            /\ \E i \in 1..Len(remoteResults) :
                    /\ remoteResults[i].name = "cli_remote_" \o n
                    /\ ~remoteResults[i].passed
                    /\ remoteResults[i].error # ""

\* C5 as stated: the result list of a group holds exactly one entry per
\* declared case, named after it, whatever happened.
C5_OneResultPerCase ==
    /\ (pc = "print_local" =>
            /\ Len(localResults) = NumLocal
            /\ \A i \in 1..NumLocal :
                    localResults[i].name = LocalTests[i].name)
    /\ (pc = "print_remote" =>
            /\ Len(remoteResults) = NumRemote
            /\ \A i \in 1..NumRemote :
                    remoteResults[i].name = "cli_remote_" \o RemoteTests[i])

\* C5 (amended): the result list a group returns holds exactly one entry per
\* declared case, in order and named after it, when the cases were executed
\* (also after a timeout, an exception of the subprocess or a transport
\* error); it holds the single failed entry cli_not_found or remote_connect
\* when the CLI executable is missing or the connection failed.
C5_ResultListShape ==
    /\ (pc = "local_case" => Len(localResults) = idx)
    /\ (pc = "print_local" =>
            \/ localResults = CliNotFound
            \/ /\ Len(localResults) = NumLocal
               /\ \A i \in 1..NumLocal :
                    localResults[i].name = LocalTests[i].name)
    /\ (pc = "basic" =>
            /\ Len(basicResults) = idx
            /\ \A i \in 1..idx : basicResults[i].name = RemoteTests[i])
    /\ (pc = "print_remote" =>
            \/ remoteResults = RemoteConnectFailed
            \/ /\ Len(remoteResults) = NumRemote
               /\ \A i \in 1..NumRemote :
                    remoteResults[i].name = "cli_remote_" \o RemoteTests[i])
\* a local group with a timed-out case and one entry per case
C5_Witness ==
    /\ pc = "print_local" /\ Len(localResults) = NumLocal
    /\ \E i \in 1..NumLocal : localResults[i].error = "Timeout"

\* what query returns for a transport error
TransportFailures ==
    {ConnClosed} \cup {ExcResp(e) : e \in SendErrors \cup RecvErrors}

\* C6 as stated: a remote case whose query met a transport error has a
\* failed result with a diagnostic text.
C6_TransportErrorFailsCase ==
    /\ \A i \in 1..Len(basicResults) :
            basicResults[i].result \in TransportFailures =>
                ~basicResults[i].passed
    /\ (pc = "print_remote" /\ Len(remoteResults) = Len(basicResults) =>
            \A i \in 1..Len(basicResults) :
                basicResults[i].result \in TransportFailures =>
                    ~remoteResults[i].passed /\ remoteResults[i].error # "")

\* C7: query lets no exception escape; after a send error, a receive error
\* or an undecodable payload it returns a dict with success false and an
\* error text; on a client without socket it returns 'Not connected' and
\* has made no socket call.
C7_QueryNeverRaises ==
    lastOp = "query" /\ qpc = "idle" =>
        /\ ~raised
        /\ result \in QueryReturns(sock)
        /\ (fault \in {"send", "recv", "decode", "closed"} =>
                /\ HasKey(result, "success") /\ ~result.success
                /\ HasKey(result, "error") /\ result.error # "")
        /\ (fault = "closed" => result = ConnClosed)
        /\ (sock = "None" => result = NotConnected /\ ioCalls = 0)
\* a query whose receive was reset by the peer
C7_Witness ==
    /\ lastOp = "query" /\ qpc = "idle" /\ fault = "recv"
    /\ result = ExcResp("Connection reset by peer") /\ ioCalls > 1

\* C8: connect returns True or False and raises nothing; when it has
\* returned, the client holds a (connected) socket exactly when it returned
\* True.
C8_ConnectBoolean ==
    lastOp = "connect" =>
        /\ ~raised
        /\ connRet \in {"True", "False"}
        /\ (connRet = "True" <=> sock # "None")
        /\ (connRet = "True" => sock = "connected")
\* a failed connect of a client that had used a connection before
C8_Witness ==
    /\ lastOp = "connect" /\ connRet = "False" /\ sock = "None"
    /\ result # NoResult /\ result # NotConnected

\* C9: disconnect raises nothing and leaves the client without socket, and
\* a second call right after it changes nothing.
C9_DisconnectIdempotent ==
    /\ (lastOp = "disconnect" => sock = "None" /\ ~raised)
    /\ \A f1 \in BOOLEAN, f2 \in BOOLEAN :
            LET once == DisconnectResult(sock, f1)
                twice == DisconnectResult(once.sock, f2)
            IN  /\ ~once.raised /\ ~twice.raised
                /\ once.sock = "None"
                /\ twice.sock = once.sock
\* a client disconnected after a connection it had used
C9_Witness ==
    /\ lastOp = "disconnect" /\ sock = "None" /\ connRet = "True"
    /\ result # NoResult

\* C10: a decoded length above 104857600 makes query return 'Response too
\* large' having taken the 4 prefix bytes from the stream and no payload
\* byte; a decoded length of at most 104857600 is never rejected by the
\* guard.
C10_SizeGuard ==
    /\ Ceiling = 104857600
    /\ (respLen > Ceiling =>
            /\ qpc = "idle" /\ result = TooLarge /\ fault = "toolarge"
            /\ consumed = 4)
    /\ (respLen # NoLen /\ respLen <= Ceiling =>
            fault # "toolarge" /\ result # TooLarge)
\* a reply one byte over the limit, its payload left unread in the stream
C10_Witness ==
    /\ lastOp = "query" /\ qpc = "idle" /\ result = TooLarge
    /\ respLen = Ceiling + 1 /\ consumed = 4 /\ BLen(rx.buf) = Ceiling + 1

\* the documents query hands to its caller as the server's answer
Decoded == {JsonOf(k) : k \in PayloadKinds \ {"garbage"}}

\* C11: while a frame is received the client has taken from the stream
\* exactly the bytes it holds (never more than 4 for the prefix, never more
\* than the declared length for the payload); when query decodes, it has
\* taken exactly 4 bytes plus the declared length, so what the peer sent
\* beyond the frame is still in the stream.
C11_ExactReceive ==
    /\ (qpc = "recv_len" =>
            /\ need = 4 /\ BLen(data) < 4 /\ consumed = BLen(data)
            /\ lastReq <= 4)
    /\ (qpc = "recv_body" =>
            /\ need = respLen /\ BLen(data) < respLen
            /\ consumed = 4 + BLen(data))
    /\ (lastOp = "query" /\ qpc = "idle" =>
            IF respLen = NoLen THEN consumed < 4
            ELSE IF Guard(respLen) THEN consumed = 4
            ELSE /\ consumed <= 4 + respLen
                 /\ (fault \in {"none", "decode"} <=>
                        consumed = 4 + respLen)
                 /\ (result \in Decoded => fault = "none"))
\* a frame of 64 bytes decoded after several reads, the byte the peer sent
\* after it left in the stream
C11_Witness ==
    /\ lastOp = "query" /\ qpc = "idle" /\ result = OkFull
    /\ respLen = 64 /\ consumed = 68 /\ ioCalls > 3 /\ BLen(rx.buf) = 1

\* C12: when the stream is closed before the 4 prefix bytes or before the
\* declared payload has arrived, query has returned 'Connection closed' and
\* nothing else; a query that took fewer bytes than the frame never returns
\* a decoded document.
C12_ShortReadTerminal ==
    /\ (fault = "closed" =>
            /\ qpc = "idle" /\ result = ConnClosed /\ ~raised
            /\ IF respLen = NoLen THEN consumed < 4
               ELSE consumed < 4 + respLen)
    /\ (lastOp = "query" /\ qpc = "idle" /\ ioCalls > 1
         /\ (respLen = NoLen
                \/ (~Guard(respLen) /\ consumed < 4 + respLen)) =>
            /\ fault \in {"closed", "recv"}
            /\ result \notin Decoded
            /\ (result = ConnClosed <=> fault = "closed"))
\* the stream closed in the middle of a payload of 64 bytes
C12_Witness ==
    /\ lastOp = "query" /\ qpc = "idle" /\ fault = "closed"
    /\ result = ConnClosed /\ respLen = 64 /\ consumed > 4 /\ consumed < 68

\* C13: when query has returned on a connection whose peer echoes the
\* request frame, the result is the object whose sql field is the string
\* that was sent, whatever the chunks of the reads; the length prefix read
\* back is the byte length of the encoded request.
C13_RoundTrip ==
    /\ (qpc = "recv_body" => respLen = Len(Utf8Encode(JsonDumps(sql))))
    /\ (lastOp = "query" /\ qpc = "idle" =>
            /\ result = [sql |-> sql]
            /\ fault = "none" /\ ~raised
            /\ consumed = 4 + respLen /\ rx = <<>>)
\* a quote followed by a non-ASCII character came back after several reads
C13_Witness ==
    /\ lastOp = "query" /\ qpc = "idle" /\ sql = <<34, 233>>
    /\ result = [sql |-> <<34, 233>>] /\ ioCalls > 4

ProbePcs == {"probe", "probe_connect", "probe_ready"}
\* C15: the probe loop ends, and with one of the outcomes ready (True),
\* exited (False) or timeout (False); a connection is attempted only in an
\* iteration that began before the deadline; an iteration due at or after
\* the deadline ends the loop with the timeout.
C15_ProbeTerminates ==
    /\ [](/\ (pc = "probe_connect" => elapsed < Deadline)
          /\ (pc \in ProbePcs =>
                /\ probeOutcome = "none" /\ startOk = "none"
                /\ elapsed <= Deadline - 1 + ConnectTimeout + SleepTicks)
          /\ (launches > 0 /\ pc \notin ProbePcs =>
                probeOutcome \in {"ready", "exited", "timeout"})
          /\ (probeOutcome = "ready" =>
                startOk = "True" /\ readyVia # "none" /\ probeSock = "None")
          /\ (probeOutcome \in {"exited", "timeout"} =>
                startOk = "False" /\ retval = 3)
          /\ (probeOutcome = "exited" => proc = "exited"))
    /\ [][pc = "probe" /\ elapsed >= Deadline /\ pc' # pc =>
            probeOutcome' = "timeout" /\ pc' = "finally"]_vars
    /\ (pc = "probe" ~> probeOutcome \in {"ready", "exited", "timeout"})
\* the deadline passed while the server was running and never accepted
C15_Witness ==
    /\ probeOutcome = "timeout" /\ pc = "finally" /\ startOk = "False"
    /\ proc = "listening" /\ readyVia = "none"

\* C16: the harness holds at most one open connection; the probe's
\* connection is closed before the next probe and before run_remote_tests
\* opens its own, which it does only after the probe reported Ready.
C16_OneConnection ==
    /\ ~(probeSock # "None" /\ testSock # "None")
    /\ (probeSock # "None" => pc = "probe_ready")
    /\ (pc = "probe_ready" => probeSock = "connected" /\ testSock = "None")
    /\ (testSock # "None" =>
            /\ probeOutcome = "ready" /\ startOk = "True"
            /\ probeSock = "None")
\* test traffic on the connection of run_remote_tests, the probe's closed
C16_Witness ==
    /\ pc = "basic" /\ idx > 0 /\ testSock = "connected"
    /\ probeSock = "None" /\ probeOutcome = "ready"

\* C17: text written by a launched server is printed exactly once by the
\* end of the run, and only when the process has exited; what the probe
\* loop printed is not printed again by stop_driver; stop_driver has run
\* without raising.
C17_OutputOnce ==
    /\ outShown <= 1
    /\ (outShown > 0 => proc = "exited" /\ drained /\ outBuf = "text")
    /\ (pc = "done" /\ launches > 0 =>
            /\ stopCalls = 1 /\ driver_process = "None" /\ proc = "exited"
            /\ drained
            /\ (outBuf = "text" => outShown = 1))
\* the probe loop printed the output of a server that exited; teardown did
\* not print it again
C17_Witness ==
    /\ pc = "done" /\ probeOutcome = "exited" /\ outBuf = "text"
    /\ outShown = 1 /\ stopCalls = 1

\* C18 as stated: after a run that ends with exit code 0 nothing of the
\* server's output has been printed, and after every other run of a
\* launched server its text has been printed.
C18_OutputDiscardedOnSuccess ==
    pc = "done" =>
        /\ (exitCode = 0 => outShown = 0)
        /\ (exitCode # 0 /\ launches > 0 /\ outBuf = "text" => outShown > 0)

\* the answers of the server that report a failure of the SQL statement
AppFailures == {AppErr}
\* C19 as stated: a recorded pass of invalid_table or syntax_error rests on
\* an answer of the server that reports an application-level failure.
C19_PredicatesKeepFaultClasses ==
    \A i \in 1..Len(basicResults) :
        (basicResults[i].name \in {"invalid_table", "syntax_error"}
         /\ basicResults[i].passed) =>
            basicResults[i].result \in AppFailures

\* C20: a local case whose subprocess timed out is recorded as failed with
\* the text 'Timeout', under its own name, and the loop goes on: the list
\* that is returned after a timeout has an entry for every declared case.
C20_LocalTimeoutRecorded ==
    /\ \A i \in 1..NumLocal :
            LocalResult(LocalTests[i], [kind |-> "timeout"]) =
                << [name |-> LocalTests[i].name, passed |-> FALSE,
                    error |-> "Timeout"] >>
    /\ \A i \in 1..Len(localResults) :
            localResults[i].error = "Timeout" =>
                /\ ~localResults[i].passed
                /\ localResults[i].name = LocalTests[i].name
                /\ (pc = "local_case" => idx >= i)
                /\ (pc = "print_local" => Len(localResults) = NumLocal)
\* the first case timed out and the last one passed
C20_Witness ==
    /\ pc = "print_local" /\ Len(localResults) = NumLocal
    /\ localResults[1].error = "Timeout" /\ ~localResults[1].passed
    /\ localResults[NumLocal].passed

\* C21 as stated: what query returns has a success field; with success true
\* it has no error field, with success false it has an error field that is
\* not empty.
C21_SuccessErrorExclusive ==
    lastOp = "query" /\ qpc = "idle" =>
        /\ HasKey(result, "success")
        /\ (result.success => ~HasKey(result, "error"))
        /\ (~result.success => HasKey(result, "error") /\ result.error # "")

\* C22: once build_all has returned False (or raised), no local case has
\* run or runs, no server is launched and no remote case runs; once
\* start_driver has returned False, no remote connection is opened and no
\* remote case runs.
C22_FatalBuildAndReady ==
    /\ (buildOk = "False" \/ exc = "build" =>
            /\ pc \in {"finally", "done"}
            /\ groupsRun = {} /\ ranPassed = 0 /\ ranFailed = 0
            /\ localResults = <<>>
            /\ launches = 0 /\ proc = "notlaunched" /\ startOk = "none"
            /\ testSock = "None" /\ basicResults = <<>>
            /\ remoteResults = <<>> /\ predRaised = {})
    /\ (buildOk = "False" => retval = 2)
    /\ (startOk = "False" =>
            /\ pc \in {"finally", "done"} /\ retval = 3
            /\ testSock = "None" /\ basicResults = <<>>
            /\ remoteResults = <<>> /\ predRaised = {}
            /\ "remote" \notin groupsRun)
\* a run whose build failed has ended with nothing run and nothing launched
C22_Witness ==
    /\ pc = "done" /\ exitCode = 2 /\ buildOk = "False" /\ stopCalls = 1
    /\ launches = 0 /\ groupsRun = {}

\* C23: the harness launches a server at most once in a run, and
\* driver_process refers to a process only after that one launch.
C23_OneServer ==
    /\ launches <= 1
    /\ (launches = 0 <=> proc = "notlaunched")
    /\ (driver_process = "Popen" => launches = 1)
    /\ (pc = "start" => launches = 0 /\ driver_process = "None")
\* the one server of the run, listening while the remote cases run
C23_Witness ==
    /\ pc = "basic" /\ launches = 1 /\ proc = "listening"
    /\ driver_process = "Popen" /\ ~termSent

\* what stop_driver does with a process that exits in time, and with one
\* that does not
GracefulStop == <<"terminate", "wait_exited", "read">>
ForcedStop == <<"terminate", "wait_timeout", "kill", "wait", "read">>
\* C24: stop_driver terminates first, then waits; it kills only after the
\* wait of 5 s timed out, and never a process that had exited before; it
\* reads the output last, after a wait that returned; afterwards
\* driver_process is None; with no process, and when called again, it does
\* nothing.
C24_StopEscalation ==
    /\ stopLog \in {<<>>, GracefulStop, ForcedStop}
    /\ (pc # "done" => stopLog = <<>>)
    /\ (pc = "done" /\ launches > 0 =>
            /\ stopLog # <<>> /\ driver_process = "None"
            /\ proc = "exited" /\ drained /\ termSent)
    /\ (pc = "done" /\ launches = 0 =>
            stopLog = <<>> /\ proc = "notlaunched" /\ ~drained)
    /\ (probeOutcome = "exited" => stopLog # ForcedStop)
    /\ \A p \in {"notlaunched", "starting", "listening", "exited"},
          g \in BOOLEAN :
            /\ StopCalls("None", p, g) = <<>>
            /\ StopDriver("None", p, FALSE).proc = p
            /\ StopCalls(StopDriver("Popen", p, FALSE).driver_process,
                         StopDriver("Popen", p, FALSE).proc, g) = <<>>
            /\ StopCalls("Popen", p, g) \in {GracefulStop, ForcedStop}
            /\ (StopCalls("Popen", p, g) = ForcedStop => p # "exited" /\ ~g)
\* a server that was Ready did not exit within the 5 s and was killed
C24_Witness ==
    /\ pc = "done" /\ stopLog = ForcedStop /\ probeOutcome = "ready"
    /\ proc = "exited" /\ driver_process = "None"

\* the lifecycle state of the supervised server, read off the harness:
\* nothing launched; launched and the probe loop has not decided; the probe
\* connected; the loop saw the process exited or ran out of time; stop_driver
\* has terminated the process and read its output
Lifecycle ==
    IF launches = 0 THEN "NotStarted"
    ELSE IF termSent THEN "Stopped"
    ELSE IF probeOutcome = "none" THEN "Starting"
    ELSE IF probeOutcome = "ready" THEN "Ready"
    ELSE "Failed"
\* the state after the step
LifecycleNext ==
    IF launches' = 0 THEN "NotStarted"
    ELSE IF termSent' THEN "Stopped"
    ELSE IF probeOutcome' = "none" THEN "Starting"
    ELSE IF probeOutcome' = "ready" THEN "Ready"
    ELSE "Failed"
\* the transitions the lifecycle is specified with (Stopping is inside
\* stop_driver, between terminate() and the end of the wait)
SpecifiedTransitions ==
    { <<"NotStarted", "Starting">>, <<"Starting", "Ready">>,
      <<"Starting", "Failed">>, <<"Ready", "Stopped">> }
\* C25 as stated: the lifecycle state changes only along NotStarted to
\* Starting, Starting to Ready or Failed, and Ready to Stopping to Stopped.
C25_OnlySpecifiedTransitions ==
    [][Lifecycle # LifecycleNext =>
          <<Lifecycle, LifecycleNext>> \in SpecifiedTransitions]_vars
\* C25: the lifecycle state changes only along NotStarted to Starting,
\* Starting to Ready or Failed, and to Stopping then Stopped from Ready and
\* also from Failed, since stop_driver runs on a server whose probe failed;
\* Ready is never reached from Failed nor twice, and nothing leaves Stopped.
C25_LifecycleTransitions ==
    [][Lifecycle # LifecycleNext =>
          <<Lifecycle, LifecycleNext>> \in
              SpecifiedTransitions \cup { <<"Failed", "Stopped">> }]_vars
\* a server whose probe timed out has been stopped
C25_Witness ==
    /\ pc = "done" /\ Lifecycle = "Stopped" /\ probeOutcome = "timeout"
    /\ stopLog # <<>>

\* C26 as stated: at the step where start_driver reports Ready, the launched
\* server is running and is the one that accepted the probe connection.
C26_ReadyMeansOwnServer ==
    [][probeOutcome # "ready" /\ probeOutcome' = "ready" =>
          readyVia' = "server" /\ proc' = "listening"]_vars

\* C27 as stated: a response query returns decoded from a frame is the
\* frame the peer sent in reply to that call's request, also after an
\* earlier query on the connection failed.
C27_ResponsePairedWithRequest ==
    lastOp = "query" /\ qpc = "idle" /\ result \in Decoded => paired

\* C28 as stated: when run reaches its finally block, whichever way
\* run_remote_tests was left, the connection run_remote_tests opened is
\* closed, so stop_driver terminates a server without client connections.
C28_TestConnectionClosed ==
    pc = "finally" => testSock = "None"

\* C29: a failed build ends the run with exit code 2 and nothing else has
\* run; a server that did not become Ready ends it with exit code 3 whatever
\* the local group counted, failures included, and without the remote group
\* and the grand total.
C29_ExitCodePrecedence ==
    /\ (buildOk = "False" =>
            /\ retval = 2 /\ groupsRun = {} /\ launches = 0
            /\ totalPassed = 0 /\ totalFailed = 0
            /\ (pc = "done" => exitCode = 2))
    /\ (startOk = "False" =>
            /\ retval = 3 /\ buildOk = "True" /\ "remote" \notin groupsRun
            /\ groupsRun = {"local"} /\ totalPassed + totalFailed > 0
            /\ (pc = "done" => exitCode = 3))
    /\ (pc = "done" /\ exitCode = 1 /\ exc = "none" =>
            startOk = "True" /\ "remote" \in groupsRun /\ totalFailed > 0)
\* local failures were counted, then the server exited during the probe
C29_Witness ==
    /\ pc = "done" /\ exitCode = 3 /\ totalFailed > 0
    /\ groupsRun = {"local"} /\ probeOutcome = "exited"

\* C30 as stated: the value of the emitted literals equals the input text,
\* newlines at chunk boundaries included, and every chunk has at most
\* max_chunk characters when no line of the text has more.
C30_EmbedRoundTrip ==
    epc = "done" =>
        /\ CppValue(string_literal) = content
        /\ ((\A i \in 1..Len(Split(content)) :
                Len(Split(content)[i]) <= max_chunk)
            => \A j \in 1..Len(chunks) : Len(chunks[j]) <= max_chunk)

====
